---- MODULE Spec2Model ----
(***************************************************************************)
(* Model of the delegate library of Observer_MetaProgramming:              *)
(*   DelegateInstance.h   FDelegateHandle, the four delegate instances,    *)
(*                        TDelegate (unicast), TMulticastDelegate          *)
(*   DelegateInstance.cpp GDelegateNextID, FDelegateHandle::GenerateNewID  *)
(* One TMulticastDelegate is modelled together with the handlers that its  *)
(* Broadcast invokes.  A handler is an arbitrary sequence of calls of the  *)
(* public operations on the same delegate (reentrancy), of releases of     *)
(* shared objects, and may return or throw.                                *)
(***************************************************************************)
EXTENDS Integers, Sequences, FiniteSets, TLC

\* ------------------------------------------------------------------ bounds
\* Handles 1 .. MaxID-1 can be generated: at most MaxID-1 bindings are made.
MaxID == 4
\* Greatest number of Broadcast calls that are in progress at once (nesting).
MaxDepth == 2
\* Greatest number of GenerateNewID calls one thread makes (SpecGen).
MaxGen == 2

\* ------------------------------------------------------------- value sets
NULL == "nullptr"
\* Objects bound through a raw pointer (the Logger and the HUD of main).
RawObjs == {"Log", "Hud"}
\* Objects held by a std::shared_ptr and bound through a std::weak_ptr.
WeakObjs == {"W"}
\* A function pointer, member function pointer or callable: set or null.
Callables == {"Update", NULL}
\* The (object, method) pairs AddRaw is called with: the two objects of
\* main, and a null object.
RawArgs == {<<"Log", "Update">>, <<"Hud", "Update">>, <<NULL, "Update">>}
\* The (weak_ptr, method) pairs AddWeak is called with; the object the
\* weak_ptr refers to may be gone already (strong).
WeakArgs == {<<"W", "Update">>}
\* The callables AddLambda is called with: a lambda expression is never empty.
LambdaArgs == {"Update"}
\* The call signatures the delegate is instantiated with: none or some
\* parameters.  The parameters are an int (as in main) and a std::vector<int>,
\* a type whose move constructor leaves its source empty.
Signatures == {"void()", "void(int, std::vector<int>)"}
\* The argument packs passed to Broadcast: the empty pack, or an int (the
\* InDelta of main) and the number of elements of a vector.
ArgValues(sig) == IF sig = "void()" THEN {<<>>} ELSE {<<10, 3>>}
\* Threads that generate handles concurrently (SpecGen).
Threads == {"t1", "t2", "t3"}

VARIABLES
    Signature,        \* the template argument of TMulticastDelegate
    GDelegateNextID,  \* std::atomic<uint64_t> GDelegateNextID
    Entries,          \* TMulticastDelegate::Entries
    strong,           \* the objects of WeakObjs some shared_ptr outside the library owns
    stack,            \* the Broadcast calls in progress, innermost last
    lastOp,           \* the operation that ran last, its argument and result
    thr,              \* per thread: the handles it has generated (for the entries of
                      \* a delegate of its own), and a value it holds in a register
    Unicast,          \* a TDelegate used on its own (SpecUni)
    uniOp             \* the operation that ran last on Unicast, and its outcome

vars == <<Signature, GDelegateNextID, Entries, strong, stack, lastOp, thr, Unicast, uniOp>>

\* ------------------------------------------------------- FDelegateHandle
\* FDelegateHandle() : DelegateID(0)
InvalidHandle == 0

IsValid(h) == h # 0

\* FetchAdd with a plain load of the counter: it is never incremented.
FetchAdd_NoIncrement(c) == [ret |-> c, next |-> c]

\* GDelegateNextID.fetch_add(1): the value before the increment is returned.
FetchAdd(c) == [ret |-> c, next |-> c + 1]

\* --------------------------------------------------- delegate instances
\* The four instance classes, as one record: the bound object (ClassPtr or
\* Weak), the callable (Func, Method or Fn) and the Handle the constructor
\* generates.
NewInstance(kind, obj, fn, c) ==
    [Kind |-> kind, Obj |-> obj, Fn |-> fn, Handle |-> FetchAdd(c).ret]

\* The objects a running weak handler keeps alive: Execute holds the
\* shared_ptr that Weak.lock() returned until the method returns.
Locked(stk) ==
    {stk[k].Entry.Delegate.Instance.Obj :
        k \in {j \in 1..Len(stk) :
                 /\ stk[j].inHandler
                 /\ stk[j].Entry.Delegate.Instance.Kind = "weak"}}

\* std::weak_ptr::expired(): no shared_ptr owns the object.
Expired(w) == w = NULL \/ (w \notin strong /\ w \notin Locked(stack))

IsSafeToExecute_NoExpiry(I) ==
    CASE I.Kind = "static" -> I.Fn # NULL
      [] I.Kind = "raw"    -> I.Obj # NULL /\ I.Fn # NULL
      [] I.Kind = "weak"   -> I.Fn # NULL
      [] I.Kind = "lambda" -> I.Fn # NULL

IsSafeToExecute(I) ==
    CASE I.Kind = "static" -> I.Fn # NULL
      [] I.Kind = "raw"    -> I.Obj # NULL /\ I.Fn # NULL
      [] I.Kind = "weak"   -> ~Expired(I.Obj) /\ I.Fn # NULL
      [] I.Kind = "lambda" -> I.Fn # NULL

\* --------------------------------------------------- TDelegate (unicast)
NoInstance == [Kind |-> "none", Obj |-> NULL, Fn |-> NULL, Handle |-> InvalidHandle]

\* TDelegate() = default: the Instance pointer is null.
EmptyDelegate == [Instance |-> NoInstance]

\* BindStatic / AddRaw / AddWeak / AddLambda of TDelegate.
Bind(kind, obj, fn, c) == [Instance |-> NewInstance(kind, obj, fn, c)]

IsBound(D) == D.Instance # NoInstance /\ IsSafeToExecute(D.Instance)

GetHandle(D) == IF D.Instance # NoInstance THEN D.Instance.Handle ELSE InvalidHandle

\* ------------------------------------------------- TMulticastDelegate
\* FEntry{}: default handle, default delegate, Owner = nullptr.
NoEntry == [Handle |-> InvalidHandle, Delegate |-> EmptyDelegate, Owner |-> NULL]

\* MulticastIsBound asking for an entry that is safe to execute.
MulticastIsBound_AnySafe == \E k \in 1..Len(Entries) : IsBound(Entries[k].Delegate)

\* bool IsBound() const { return !Entries.empty(); }
MulticastIsBound == Entries # <<>>

\* AddInternal giving every entry a handle of its own, whatever the binding has.
AddInternal_AlwaysFresh(seq, InDelegate, InOwner, c) ==
    LET Entry == [Handle |-> FetchAdd(c).ret, Delegate |-> InDelegate, Owner |-> InOwner]
        after == Append(seq, Entry)
    IN  [Entries |-> after, ret |-> after[Len(after)].Handle, next |-> FetchAdd(c).next]

\* AddInternal inserting the entry at the front (insert(begin()) for
\* push_back).
AddInternal_Prepend(seq, InDelegate, InOwner, c) ==
    LET h0    == GetHandle(InDelegate)
        fresh == ~IsValid(h0)
        h     == IF fresh THEN FetchAdd(c).ret ELSE h0
        Entry == [Handle |-> h, Delegate |-> InDelegate, Owner |-> InOwner]
    IN  [Entries |-> <<Entry>> \o seq,
         ret     |-> Entry.Handle,
         next    |-> IF fresh THEN FetchAdd(c).next ELSE c]

\* AddInternal(InDelegate, InOwner), with c the counter after the binding was
\* made: the new entry sequence, the returned handle and the counter.
AddInternal(seq, InDelegate, InOwner, c) ==
    LET h0    == GetHandle(InDelegate)
        fresh == ~IsValid(h0)
        h     == IF fresh THEN FetchAdd(c).ret ELSE h0
        Entry == [Handle |-> h, Delegate |-> InDelegate, Owner |-> InOwner]
        after == Append(seq, Entry)
    IN  [Entries |-> after,
         ret     |-> after[Len(after)].Handle,
         next    |-> IF fresh THEN FetchAdd(c).next ELSE c]

\* std::find_if(Entries.begin(), Entries.end(), E.Handle == InHandle): the
\* first matching position, or Len + 1 for Entries.end().
FindHandle(seq, InHandle) ==
    IF \E k \in 1..Len(seq) : seq[k].Handle = InHandle
    THEN CHOOSE k \in 1..Len(seq) :
            /\ seq[k].Handle = InHandle
            /\ \A j \in 1..(k - 1) : seq[j].Handle # InHandle
    ELSE Len(seq) + 1

\* EraseAt with erase(Iter, end()) written for erase(Iter).
EraseAt_ToEnd(seq, k) == SubSeq(seq, 1, k - 1)

\* vector::erase(Iter): the element at Iter goes, the rest keeps its order.
EraseAt(seq, k) == SubSeq(seq, 1, k - 1) \o SubSeq(seq, k + 1, Len(seq))

\* Remove(InHandle) on the entry sequence.
RemoveEntry(seq, InHandle) ==
    LET Iter == FindHandle(seq, InHandle)
    IN  IF Iter # Len(seq) + 1 THEN EraseAt(seq, Iter) ELSE seq

\* RemoveAllEntries with the null-owner guard left out.
RemoveAllEntries_NoGuard(seq, InOwner) ==
    SelectSeq(seq, LAMBDA E : ~(E.Owner = InOwner))

\* RemoveAllEntries erasing the first match only (find_if for remove_if).
RemoveAllEntries_FirstOnly(seq, InOwner) ==
    IF InOwner = NULL \/ ~(\E k \in 1..Len(seq) : seq[k].Owner = InOwner) THEN seq
    ELSE LET k == CHOOSE k \in 1..Len(seq) :
                    /\ seq[k].Owner = InOwner
                    /\ \A j \in 1..(k - 1) : seq[j].Owner # InOwner
         IN  SubSeq(seq, 1, k - 1) \o SubSeq(seq, k + 1, Len(seq))

\* RemoveAll(InOwner) on the entry sequence: erase(remove_if(...), end()).
RemoveAllEntries(seq, InOwner) ==
    IF InOwner = NULL THEN seq
    ELSE SelectSeq(seq, LAMBDA E : ~(E.Owner = InOwner))

\* Compact with the erase left out.
Compact_Nothing(seq) == seq

\* Compact rebuilding the entries from the snapshot of the call
\* (Entries = Snapshot without its unbound entries).
Compact_FromSnapshot(seq) ==
    SelectSeq(stack[Len(stack)].Snapshot, LAMBDA E : IsBound(E.Delegate))

\* The compaction of Broadcast: erase(remove_if(!Entry.Delegate.IsBound())).
Compact(seq) == SelectSeq(seq, LAMBDA E : IsBound(E.Delegate))

\* --------------------------------------------------------- argument packs
\* The state std::forward<ArgsType>(Args) leaves Broadcast's parameter in
\* once ExecuteIfBound's by-value parameter has been constructed from it: an
\* int is copied, a std::vector is moved from and is empty afterwards.
MovedFrom(a) == IF a = <<>> THEN a ELSE <<a[1], 0>>

\* ------------------------------------------------------ Broadcast frames
\* One Broadcast call in progress: the locals Snapshot and Args, the position
\* of the range-for, whether the handler of the current Entry is running;
\* and what the code does not store: the arguments as passed (Args0), the
\* invocations made so far (invoked), the weak entries whose object was gone
\* when the call began (dead0), the counter at that time (id0), and the
\* positions whose handler has called RemoveAll with its own owner (selfRA).
NewFrame(args) ==
    [Snapshot  |-> Entries,
     i         |-> 1,
     Args      |-> args,
     inHandler |-> FALSE,
     Entry     |-> NoEntry,
     Args0     |-> args,
     invoked   |-> <<>>,
     dead0     |-> {Entries[k].Handle :
                      k \in {j \in 1..Len(Entries) :
                               /\ Entries[j].Delegate.Instance.Kind = "weak"
                               /\ Expired(Entries[j].Delegate.Instance.Obj)}},
     id0       |-> GDelegateNextID,
     selfRA    |-> {}]

Top == stack[Len(stack)]

Below == SubSeq(stack, 1, Len(stack) - 1)

\* IterSeq walking the live Entries (for (... : Entries), no copy).
IterSeq_Live(f) == Entries

\* The sequence the range-for of Broadcast walks: the copy, not Entries.
IterSeq(f) == f.Snapshot

\* Code of main or of a handler is running: it may call the delegate.
Running == IF stack = <<>> THEN TRUE ELSE Top.inHandler

\* lastOp: the operation main has completed last (one called outside every
\* Broadcast), the handle and the owner it was given or returned, and the
\* number of entries it took away; StepOp once a step inside a Broadcast has
\* been taken since.
StepOp == [op |-> "Step", h |-> InvalidHandle, o |-> NULL, n |-> 0]

MainOp(op, h, o, before, after) ==
    [op |-> op, h |-> h, o |-> o, n |-> Len(before) - Len(after)]

Op(op, h, o, before, after) ==
    IF stack = <<>> THEN MainOp(op, h, o, before, after) ELSE StepOp

\* uniOp: the operation that ran last on Unicast, how it ended ("returned",
\* or "abort" when an assert failed), the calls of the target it made and
\* the result it returned (<<>> for none).
UniOp(op, outcome, calls, ret) ==
    [op |-> op, outcome |-> outcome, calls |-> calls, ret |-> ret]

NoUniOp == UniOp("Init", "returned", <<>>, <<>>)

\* ------------------------------------------------------------------ Init
Init ==
    /\ Signature \in Signatures
    /\ GDelegateNextID = 1
    /\ Entries = <<>>
    /\ strong = WeakObjs
    /\ stack = <<>>
    /\ lastOp = MainOp("Init", InvalidHandle, NULL, <<>>, <<>>)
    /\ thr = [t \in Threads |-> [ids |-> <<>>, tmp |-> 0]]
    /\ Unicast = EmptyDelegate
    /\ uniOp = NoUniOp

\* ------------------------------------------------------- Add* operations
\* Unicast D; D.Bind...(...); return AddInternal(std::move(D), InOwner);
Add(op, kind, obj, fn, InOwner) ==
    /\ Running
    /\ GDelegateNextID < MaxID
    /\ LET D == Bind(kind, obj, fn, GDelegateNextID)
           r == AddInternal(Entries, D, InOwner, FetchAdd(GDelegateNextID).next)
       IN  /\ Entries' = r.Entries
           /\ GDelegateNextID' = r.next
           /\ lastOp' = Op(op, r.ret, InOwner, Entries, r.Entries)
    /\ UNCHANGED <<Signature, strong, stack, thr, Unicast, uniOp>>

AddStatic(Fn) == Add("AddStatic", "static", NULL, Fn, NULL)

AddRaw(InObjPtr, InMethod) == Add("AddRaw", "raw", InObjPtr, InMethod, InObjPtr)

AddWeak(InWeak, InMethod) == Add("AddWeak", "weak", InWeak, InMethod, NULL)

\* TDelegate::AddLambda names TLambdaDelegateInstance<RetType, ArgsType..., Func>
\* where the template is <RetType, Func, ArgsType...>: the two agree, and the
\* call compiles, only for a signature without parameters.
AddLambda(InFunc) ==
    /\ Signature = "void()"
    /\ Add("AddLambda", "lambda", NULL, InFunc, NULL)

\* ------------------------------------------------ Remove, RemoveAll, Clear
Remove(InHandle) ==
    /\ Running
    /\ Entries' = RemoveEntry(Entries, InHandle)
    /\ lastOp' = Op("Remove", InHandle, NULL, Entries, Entries')
    /\ UNCHANGED <<Signature, GDelegateNextID, strong, stack, thr, Unicast, uniOp>>

\* RemoveAll(InOwner); a handler that passes the owner of the entry it was
\* invoked for is noted in selfRA of the call that invoked it.
RemoveAll(InOwner) ==
    /\ Running
    /\ Entries' = RemoveAllEntries(Entries, InOwner)
    /\ lastOp' = Op("RemoveAll", InvalidHandle, InOwner, Entries, Entries')
    /\ stack' =
         IF stack # <<>> /\ InOwner # NULL /\ Top.Entry.Owner = InOwner
         THEN Append(Below, [Top EXCEPT !.selfRA = @ \cup {Top.i}])
         ELSE stack
    /\ UNCHANGED <<Signature, GDelegateNextID, strong, thr, Unicast, uniOp>>

Clear ==
    /\ Running
    /\ Entries' = <<>>
    /\ lastOp' = Op("Clear", InvalidHandle, NULL, Entries, Entries')
    /\ UNCHANGED <<Signature, GDelegateNextID, strong, stack, thr, Unicast, uniOp>>

\* The last shared_ptr outside the library that owns w is reset.
ReleaseObject(w) ==
    /\ Running
    /\ w \in strong
    /\ strong' = strong \ {w}
    /\ lastOp' = Op("Release", InvalidHandle, w, Entries, Entries)
    /\ UNCHANGED <<Signature, GDelegateNextID, Entries, stack, thr, Unicast, uniOp>>

\* --------------------------------------------------------------- Broadcast
\* Broadcast(Args) is entered: return at once when there are no entries,
\* else copy Entries and start the range-for.
Broadcast(args) ==
    /\ Running
    /\ Len(stack) < MaxDepth
    /\ stack' = IF Entries = <<>> THEN stack ELSE Append(stack, NewFrame(args))
    /\ lastOp' = IF Entries = <<>> THEN Op("Broadcast", InvalidHandle, NULL, Entries, Entries) ELSE StepOp
    /\ UNCHANGED <<Signature, GDelegateNextID, Entries, strong, thr, Unicast, uniOp>>

\* Dispatch deciding from the safety of the entry when the snapshot was
\* taken: a weak entry is skipped only if its object was gone by then.
Dispatch_SafeAtSnapshot ==
    /\ stack # <<>>
    /\ ~Top.inHandler
    /\ Top.i <= Len(IterSeq(Top))
    /\ LET E    == IterSeq(Top)[Top.i]
           Args == Top.Args
       IN  IF E.Delegate.Instance.Fn # NULL /\ E.Handle \notin Top.dead0
              /\ (E.Delegate.Instance.Kind = "raw" => E.Delegate.Instance.Obj # NULL)
           THEN /\ stack' = Append(Below,
                     [Top EXCEPT !.inHandler = TRUE,
                                 !.Entry = E,
                                 !.Args = MovedFrom(Args),
                                 !.invoked = Append(@, [h |-> E.Handle, args |-> Args])])
                /\ lastOp' = StepOp
           ELSE /\ stack' = Append(Below,
                     [Top EXCEPT !.i = @ + 1, !.Args = MovedFrom(Args)])
                /\ lastOp' = StepOp
    /\ UNCHANGED <<Signature, GDelegateNextID, Entries, strong, thr, Unicast, uniOp>>

\* Dispatch erasing an entry that is not bound as soon as it is skipped.
Dispatch_EraseSkipped ==
    /\ stack # <<>>
    /\ ~Top.inHandler
    /\ Top.i <= Len(IterSeq(Top))
    /\ LET E    == IterSeq(Top)[Top.i]
           Args == Top.Args
       IN  IF IsBound(E.Delegate)
           THEN /\ stack' = Append(Below,
                     [Top EXCEPT !.inHandler = TRUE,
                                 !.Entry = E,
                                 !.Args = MovedFrom(Args),
                                 !.invoked = Append(@, [h |-> E.Handle, args |-> Args])])
                /\ lastOp' = StepOp
                /\ Entries' = Entries
           ELSE /\ stack' = Append(Below,
                     [Top EXCEPT !.i = @ + 1, !.Args = MovedFrom(Args)])
                /\ lastOp' = StepOp
                /\ Entries' = RemoveEntry(Entries, E.Handle)
    /\ UNCHANGED <<Signature, GDelegateNextID, strong, thr, Unicast, uniOp>>

\* One iteration of the range-for: Entry.Delegate.ExecuteIfBound(forward(Args)).
\* The by-value parameter is built from Args, which is left moved from; the
\* target is entered when the delegate is bound, else the iteration is over.
Dispatch ==
    /\ stack # <<>>
    /\ ~Top.inHandler
    /\ Top.i <= Len(IterSeq(Top))
    /\ LET E    == IterSeq(Top)[Top.i]
           Args == Top.Args
       IN  IF IsBound(E.Delegate)
           THEN /\ stack' = Append(Below,
                     [Top EXCEPT !.inHandler = TRUE,
                                 !.Entry = E,
                                 !.Args = MovedFrom(Args),
                                 !.invoked = Append(@, [h |-> E.Handle, args |-> Args])])
                /\ lastOp' = StepOp
           ELSE /\ stack' = Append(Below,
                     [Top EXCEPT !.i = @ + 1, !.Args = MovedFrom(Args)])
                /\ lastOp' = StepOp
    /\ UNCHANGED <<Signature, GDelegateNextID, Entries, strong, thr, Unicast, uniOp>>

\* The target returns: the range-for moves to the next element.
HandlerReturn ==
    /\ stack # <<>>
    /\ Top.inHandler
    /\ stack' = Append(Below,
         [Top EXCEPT !.inHandler = FALSE, !.Entry = NoEntry, !.i = @ + 1])
    /\ lastOp' = StepOp
    /\ UNCHANGED <<Signature, GDelegateNextID, Entries, strong, thr, Unicast, uniOp>>

\* HandlerThrow with the compaction run on the way out (as from a scope guard).
HandlerThrow_CompactsFirst ==
    /\ stack # <<>>
    /\ Top.inHandler
    /\ Entries' = Compact(Entries)
    /\ stack' = Below
    /\ lastOp' = IF Below = <<>> THEN MainOp("BroadcastThrew", InvalidHandle, NULL, Entries, Entries') ELSE StepOp
    /\ UNCHANGED <<Signature, GDelegateNextID, strong, thr, Unicast, uniOp>>

\* The target throws: Broadcast has no handler for it, the call is left
\* without its compaction and the exception reaches the caller of Broadcast.
HandlerThrow ==
    /\ stack # <<>>
    /\ Top.inHandler
    /\ stack' = Below
    /\ lastOp' = IF Below = <<>> THEN MainOp("BroadcastThrew", InvalidHandle, NULL, Entries, Entries) ELSE StepOp
    /\ UNCHANGED <<Signature, GDelegateNextID, Entries, strong, thr, Unicast, uniOp>>

\* The range-for is over: compact the live Entries and return.
BroadcastEnd ==
    /\ stack # <<>>
    /\ ~Top.inHandler
    /\ Top.i > Len(IterSeq(Top))
    /\ Entries' = Compact(Entries)
    /\ stack' = Below
    /\ lastOp' = IF Below = <<>> THEN MainOp("Broadcast", InvalidHandle, NULL, Entries, Entries') ELSE StepOp
    /\ UNCHANGED <<Signature, GDelegateNextID, strong, thr, Unicast, uniOp>>

Next ==
    \/ \E Fn \in Callables : AddStatic(Fn)
    \/ \E a \in RawArgs : AddRaw(a[1], a[2])
    \/ \E a \in WeakArgs : AddWeak(a[1], a[2])
    \/ \E InFunc \in LambdaArgs : AddLambda(InFunc)
    \/ \E InHandle \in 0..(MaxID - 1) : Remove(InHandle)
    \/ \E InOwner \in RawObjs \cup WeakObjs \cup {NULL} : RemoveAll(InOwner)
    \/ Clear
    \/ \E w \in WeakObjs : ReleaseObject(w)
    \/ \E args \in ArgValues(Signature) : Broadcast(args)
    \/ Dispatch
    \/ HandlerReturn
    \/ HandlerThrow
    \/ BroadcastEnd

Spec == Init /\ [][Next]_vars

\* ------------------------------------------------- passes that do not nest
\* Broadcast called by main only: no handler calls Broadcast.
BroadcastFromMain(args) ==
    /\ stack = <<>>
    /\ Broadcast(args)

NextPass ==
    \/ \E Fn \in Callables : AddStatic(Fn)
    \/ \E a \in RawArgs : AddRaw(a[1], a[2])
    \/ \E a \in WeakArgs : AddWeak(a[1], a[2])
    \/ \E InFunc \in LambdaArgs : AddLambda(InFunc)
    \/ \E InHandle \in 0..(MaxID - 1) : Remove(InHandle)
    \/ \E InOwner \in RawObjs \cup WeakObjs \cup {NULL} : RemoveAll(InOwner)
    \/ Clear
    \/ \E w \in WeakObjs : ReleaseObject(w)
    \/ \E args \in ArgValues(Signature) : BroadcastFromMain(args)
    \/ Dispatch
    \/ HandlerReturn
    \/ HandlerThrow
    \/ BroadcastEnd

\* Broadcast runs to completion on the caller's thread: its loop goes on and
\* its compaction runs; and every handler comes to its end.
SpecPass ==
    /\ Init /\ [][NextPass]_vars
    /\ WF_vars(Dispatch)
    /\ WF_vars(HandlerReturn)
    /\ WF_vars(BroadcastEnd)

\* ------------------------------------------- concurrent handle generation
\* GenerateNewID as a load and a store that other threads can come between.
GenerateNewID_LoadStore(t) ==
    \/ /\ thr[t].tmp = 0
       /\ Len(thr[t].ids) < MaxGen
       /\ thr' = [thr EXCEPT ![t].tmp = GDelegateNextID]
       /\ UNCHANGED <<Signature, GDelegateNextID, Entries, strong, stack, lastOp, Unicast, uniOp>>
    \/ /\ thr[t].tmp # 0
       /\ GDelegateNextID' = thr[t].tmp + 1
       /\ thr' = [thr EXCEPT ![t].ids = Append(@, thr[t].tmp), ![t].tmp = 0]
       /\ UNCHANGED <<Signature, Entries, strong, stack, lastOp, Unicast, uniOp>>

\* Thread t constructs a FDelegateHandle(GenerateNewHandle) for an entry of
\* its delegate: GenerateNewID is one atomic fetch_add on the shared counter.
GenerateNewID(t) ==
    /\ thr[t].tmp = 0
    /\ Len(thr[t].ids) < MaxGen
    /\ GDelegateNextID' = FetchAdd(GDelegateNextID).next
    /\ thr' = [thr EXCEPT ![t].ids = Append(@, FetchAdd(GDelegateNextID).ret)]
    /\ UNCHANGED <<Signature, Entries, strong, stack, lastOp, Unicast, uniOp>>

NextGen == \E t \in Threads : GenerateNewID(t)

SpecGen == Init /\ [][NextGen]_vars

\* ------------------------------------------------ TDelegate used on its own
\* The call signatures of the unicast delegate: as for the multicast one, and
\* one with a result.
UnicastSignatures == Signatures \cup {"int(int, std::vector<int>)"}

IsVoid(sig) == sig \in {"void()", "void(int, std::vector<int>)"}

\* The results a target returns: none for void, else some int.
TargetResults(sig) == IF IsVoid(sig) THEN {<<>>} ELSE {<<0>>, <<7>>}

\* if constexpr (!std::is_void_v<RetType>) return RetType{}; else return;
DefaultResult(sig) == IF IsVoid(sig) THEN <<>> ELSE <<0>>

\* Instance->Execute(Args...): assert(IsSafeToExecute()), then the call of
\* the target with the arguments, whose result r is returned.
InstanceExecute(I, args, r) ==
    IF ~IsSafeToExecute(I)
    THEN [outcome |-> "abort", calls |-> <<>>, ret |-> <<>>]
    ELSE [outcome |-> "returned",
          calls   |-> <<[target |-> <<I.Kind, I.Obj, I.Fn>>, args |-> args]>>,
          ret     |-> r]

\* TDelegate::Execute: assert(IsBound()); return Instance->Execute(Args...).
DelegateExecute(D, args, r) ==
    IF ~IsBound(D)
    THEN [outcome |-> "abort", calls |-> <<>>, ret |-> <<>>]
    ELSE InstanceExecute(D.Instance, args, r)

\* DelegateExecuteIfBound forwarding to the instance whenever one is present.
DelegateExecuteIfBound_IfPresent(D, args, r, sig) ==
    IF D.Instance = NoInstance
    THEN [outcome |-> "returned", calls |-> <<>>, ret |-> DefaultResult(sig)]
    ELSE InstanceExecute(D.Instance, args, r)

\* TDelegate::ExecuteIfBound: the default result when not bound, else
\* Instance->Execute(Args...).
DelegateExecuteIfBound(D, args, r, sig) ==
    IF ~IsBound(D)
    THEN [outcome |-> "returned", calls |-> <<>>, ret |-> DefaultResult(sig)]
    ELSE InstanceExecute(D.Instance, args, r)

\* A failed assert ends the program.
Alive == uniOp.outcome # "abort"

InitUni ==
    /\ Signature \in UnicastSignatures
    /\ GDelegateNextID = 1
    /\ Entries = <<>>
    /\ strong = WeakObjs
    /\ stack = <<>>
    /\ lastOp = MainOp("Init", InvalidHandle, NULL, <<>>, <<>>)
    /\ thr = [t \in Threads |-> [ids |-> <<>>, tmp |-> 0]]
    /\ Unicast = EmptyDelegate
    /\ uniOp = NoUniOp

\* Instance = std::make_shared<...>(...): the instance the delegate had is
\* dropped, the new one generates its handle.
DelegateBind(op, kind, obj, fn) ==
    /\ Alive
    /\ GDelegateNextID < MaxID
    /\ Unicast' = Bind(kind, obj, fn, GDelegateNextID)
    /\ GDelegateNextID' = FetchAdd(GDelegateNextID).next
    /\ uniOp' = UniOp(op, "returned", <<>>, <<>>)
    /\ UNCHANGED <<Signature, Entries, strong, stack, lastOp, thr>>

BindStatic(Func) == DelegateBind("BindStatic", "static", NULL, Func)

DelegateAddRaw(InObjPtr, InMethod) == DelegateBind("AddRaw", "raw", InObjPtr, InMethod)

DelegateAddWeak(InWeak, InMethod) == DelegateBind("AddWeak", "weak", InWeak, InMethod)

\* Compiles only for a signature without parameters (see AddLambda).
DelegateAddLambda(InLambdaFunc) ==
    /\ Signature = "void()"
    /\ DelegateBind("AddLambda", "lambda", NULL, InLambdaFunc)

\* void Unbind() { Instance.reset(); }
Unbind ==
    /\ Alive
    /\ Unicast' = EmptyDelegate
    /\ uniOp' = UniOp("Unbind", "returned", <<>>, <<>>)
    /\ UNCHANGED <<Signature, GDelegateNextID, Entries, strong, stack, lastOp, thr>>

\* The last shared_ptr that owns w is reset by the user of the delegate.
UniReleaseObject(w) ==
    /\ Alive
    /\ w \in strong
    /\ strong' = strong \ {w}
    /\ uniOp' = UniOp("Release", "returned", <<>>, <<>>)
    /\ UNCHANGED <<Signature, GDelegateNextID, Entries, stack, lastOp, thr, Unicast>>

Execute(args) ==
    /\ Alive
    /\ \E r \in TargetResults(Signature) :
          LET x == DelegateExecute(Unicast, args, r)
          IN  uniOp' = UniOp("Execute", x.outcome, x.calls, x.ret)
    /\ UNCHANGED <<Signature, GDelegateNextID, Entries, strong, stack, lastOp, thr, Unicast>>

ExecuteIfBound(args) ==
    /\ Alive
    /\ \E r \in TargetResults(Signature) :
          LET x == DelegateExecuteIfBound(Unicast, args, r, Signature)
          IN  uniOp' = UniOp("ExecuteIfBound", x.outcome, x.calls, x.ret)
    /\ UNCHANGED <<Signature, GDelegateNextID, Entries, strong, stack, lastOp, thr, Unicast>>

NextUni ==
    \/ \E Func \in Callables : BindStatic(Func)
    \/ \E a \in RawArgs : DelegateAddRaw(a[1], a[2])
    \/ \E a \in WeakArgs : DelegateAddWeak(a[1], a[2])
    \/ \E InLambdaFunc \in LambdaArgs : DelegateAddLambda(InLambdaFunc)
    \/ Unbind
    \/ \E w \in WeakObjs : UniReleaseObject(w)
    \/ \E args \in ArgValues(Signature) : Execute(args)
    \/ \E args \in ArgValues(Signature) : ExecuteIfBound(args)

SpecUni == InitUni /\ [][NextUni]_vars

\* ================================================================ claims
Handles(seq) == [k \in 1..Len(seq) |-> seq[k].Handle]

HandleSet(seq) == {seq[k].Handle : k \in 1..Len(seq)}

InvokedHandles(f) == [k \in 1..Len(f.invoked) |-> f.invoked[k].h]

\* The range-for of the call f is over, its compaction is still to run.
LoopDone(f) == ~f.inHandler /\ f.i > Len(IterSeq(f))

\* new is old without exactly the entries at the positions gone: every other
\* entry is still there, moved down by the number of entries gone before it.
Survivors(old, new, gone) ==
    /\ Len(new) = Len(old) - Cardinality(gone)
    /\ \A k \in (1..Len(old)) \ gone :
          new[k - Cardinality({g \in gone : g < k})] = old[k]

\* No handler of the call f has changed the delegate or invalidated a
\* binding: the live entries are the snapshot, nothing was added, and every
\* entry was safe when the call began and still is.
Undisturbed(f) ==
    /\ Entries = f.Snapshot
    /\ GDelegateNextID = f.id0
    /\ \A k \in 1..Len(f.Snapshot) : IsBound(f.Snapshot[k].Delegate)

\* C1: a Broadcast(args) on entries that are all safe, with handlers that do
\* not mutate the delegate, invokes the entries one by one in registration
\* order, each exactly once and each with the argument values given to
\* Broadcast: the j-th invocation is of the j-th entry, with Args0.
C1_EachOnceInOrderSameArgs ==
    \A k \in 1..Len(stack) :
        LET f == stack[k] IN
        Undisturbed(f) =>
            /\ Len(f.invoked) = IF f.inHandler THEN f.i ELSE f.i - 1
            /\ \A j \in 1..Len(f.invoked) :
                  f.invoked[j] = [h |-> f.Snapshot[j].Handle, args |-> f.Args0]

\* C1 without the argument values: each entry once, in registration order.
C1_EachOnceInOrder ==
    \A k \in 1..Len(stack) :
        LET f == stack[k] IN
        Undisturbed(f) =>
            /\ Len(f.invoked) = IF f.inHandler THEN f.i ELSE f.i - 1
            /\ \A j \in 1..Len(f.invoked) :
                  /\ f.invoked[j].h = f.Snapshot[j].Handle
                  /\ f.Args0 # <<>> => f.invoked[j].args[1] = f.Args0[1]
            /\ \A a, b \in 1..Len(f.invoked) : a < b => f.invoked[a].h < f.invoked[b].h

\* C2: Remove(h) removes exactly the one entry whose Handle is h and leaves
\* the others in their relative order; with no such entry (h invalid, never
\* issued or removed already) the entries are unchanged.
C2_RemoveExactlyOne ==
    [][\A h \in 0..(MaxID - 1) :
          Remove(h) =>
             IF h \in HandleSet(Entries)
             THEN /\ Len(Entries') = Len(Entries) - 1
                  /\ Survivors(Entries, Entries',
                               {k \in 1..Len(Entries) : Entries[k].Handle = h})
             ELSE Entries' = Entries]_vars

\* main has removed the second of three entries by its handle.
C2_Witness ==
    /\ lastOp.op = "Remove" /\ lastOp.h = 2 /\ lastOp.n = 1
    /\ Handles(Entries) = <<1, 3>>

\* C3: RemoveAll(owner) with a non-null owner removes exactly the entries
\* whose Owner is that owner, all of them, and leaves the others (other
\* owners, no owner) in their relative order.
C3_RemoveAllExactlyOwner ==
    [][\A o \in RawObjs \cup WeakObjs :
          RemoveAll(o) =>
             Survivors(Entries, Entries',
                       {k \in 1..Len(Entries) : Entries[k].Owner = o})]_vars

\* main has removed both entries of Log; the entry between them stays.
C3_Witness ==
    /\ lastOp.op = "RemoveAll" /\ lastOp.o = "Log" /\ lastOp.n = 2
    /\ Handles(Entries) = <<2>>

\* C4: RemoveAll with a null owner removes nothing, also when entries with
\* a null Owner are present.
C4_RemoveAllNullKeepsAll ==
    [][RemoveAll(NULL) => Entries' = Entries]_vars

\* main has called RemoveAll(nullptr) on a static, a weak and a null-object
\* raw entry, all of which have a null Owner, and they are still there.
C4_Witness ==
    /\ lastOp.op = "RemoveAll" /\ lastOp.o = NULL
    /\ Len(Entries) = 3
    /\ \A k \in 1..3 : Entries[k].Owner = NULL
    /\ \E k \in 1..3 : Entries[k].Delegate.Instance.Kind = "raw"
    /\ \E k \in 1..3 : Entries[k].Delegate.Instance.Kind = "weak"

InvokedHandleSet(f) == {f.invoked[j].h : j \in 1..Len(f.invoked)}

\* The position in the snapshot of f of the entry with handle h.
SnapPos(f, h) == CHOOSE p \in 1..Len(f.Snapshot) : f.Snapshot[p].Handle = h

\* What an entry invokes: the kind of binding, its object and its callable.
Target(E) == <<E.Delegate.Instance.Kind, E.Delegate.Instance.Obj, E.Delegate.Instance.Fn>>

\* C5: a weak entry whose object was gone when a Broadcast began is not
\* invoked by that Broadcast and is not among the entries when the Broadcast
\* returns, and every entry of the call that is safe has been invoked by then.
C5_DeadWeakSkippedAndRemoved ==
    [][/\ \A k \in 1..Len(stack') : InvokedHandleSet(stack'[k]) \cap stack'[k].dead0 = {}
       /\ BroadcastEnd =>
            /\ Top.dead0 \cap HandleSet(Entries') = {}
            /\ \A p \in 1..Len(Top.Snapshot) :
                  IsBound(Top.Snapshot[p].Delegate)
                     => Top.Snapshot[p].Handle \in InvokedHandleSet(Top)]_vars

\* The range-for of a Broadcast on a dead weak entry between two safe ones is
\* over: the two were invoked, the weak one was not.
C5_Witness ==
    /\ Len(stack) = 1 /\ LoopDone(Top)
    /\ Len(Top.Snapshot) = 3
    /\ Top.dead0 = {2}
    /\ InvokedHandles(Top) = <<1, 3>>
    /\ Entries = Top.Snapshot

\* C6: no two GenerateNewID calls return the same value, whichever threads
\* make them and however they interleave, and none returns the invalid 0.
C6_HandlesNeverEqual ==
    \A t \in Threads, u \in Threads :
        \A a \in 1..Len(thr[t].ids), b \in 1..Len(thr[u].ids) :
            /\ IsValid(thr[t].ids[a])
            /\ (t # u \/ a # b) => thr[t].ids[a] # thr[u].ids[b]

\* Three threads have generated two handles each, interleaved.
C6_Witness ==
    /\ \A t \in Threads : Len(thr[t].ids) = 2
    /\ thr["t1"].ids = <<1, 6>>
    /\ thr["t2"].ids[1] = 2

\* C7 as claimed: once a handler has called RemoveAll with its own owner, no
\* later entry of the same pass invokes that handler again, whatever else its
\* owner has registered.
C7_HandlerNotInvokedAgain ==
    \A k \in 1..Len(stack) :
        LET f == stack[k] IN
        \A s \in f.selfRA :
            \A p \in (s + 1)..Len(f.Snapshot) :
                f.Snapshot[p].Handle \in InvokedHandleSet(f)
                    => Target(f.Snapshot[p]) # Target(f.Snapshot[s])

\* C7 amended: the entry whose handler has called RemoveAll with its own
\* owner is invoked once in the pass, not again; the pass goes on through
\* the snapshot in order, and when its range-for is over every entry of the
\* snapshot that is safe has been invoked (other entries of that owner too).
C7_EntryNotInvokedAgain ==
    \A k \in 1..Len(stack) :
        LET f == stack[k] IN
        f.selfRA # {} =>
            /\ \A s \in f.selfRA :
                  Cardinality({j \in 1..Len(f.invoked) :
                                  f.invoked[j].h = f.Snapshot[s].Handle}) = 1
            /\ \A j \in 1..Len(f.invoked) : f.invoked[j].h \in HandleSet(f.Snapshot)
            /\ \A a, b \in 1..Len(f.invoked) :
                  a < b => SnapPos(f, f.invoked[a].h) < SnapPos(f, f.invoked[b].h)
            /\ (k = Len(stack) /\ LoopDone(f)) =>
                  \A p \in 1..Len(f.Snapshot) :
                      IsBound(f.Snapshot[p].Delegate)
                         => f.Snapshot[p].Handle \in InvokedHandleSet(f)

\* Log is registered twice with a static entry after; the first handler of
\* Log has called RemoveAll(Log), and the pass has still invoked all three.
C7_Witness ==
    /\ Len(stack) = 1 /\ LoopDone(Top)
    /\ Top.selfRA = {1}
    /\ Len(Top.Snapshot) = 3
    /\ Target(Top.Snapshot[1]) = <<"raw", "Log", "Update">>
    /\ Target(Top.Snapshot[2]) = <<"raw", "Log", "Update">>
    /\ InvokedHandles(Top) = <<1, 2, 3>>
    /\ Handles(Entries) = <<3>>

\* C8: what a handler does to the delegate during a pass does not change what
\* the pass dispatches to: the snapshot of a pass in progress never changes,
\* only its entries are invoked, in its order, none that was added since it
\* began; and a Broadcast that begins later takes the entries as they are
\* then, with every change made so far.
C8_PassIteratesItsSnapshot ==
    [][/\ \A k \in 1..Len(stack) :
             k <= Len(stack') => stack'[k].Snapshot = stack[k].Snapshot
       /\ \A k \in 1..Len(stack') :
             LET f == stack'[k] IN
             /\ \A j \in 1..Len(f.invoked) :
                   /\ f.invoked[j].h \in HandleSet(f.Snapshot)
                   /\ f.invoked[j].h < f.id0
             /\ \A a, b \in 1..Len(f.invoked) :
                   a < b => SnapPos(f, f.invoked[a].h) < SnapPos(f, f.invoked[b].h)
       /\ \A k \in 1..Len(stack) :
             Len(Entries') > Len(Entries)
                => Entries'[Len(Entries')].Handle \notin HandleSet(stack[k].Snapshot)
       /\ Len(stack') > Len(stack) =>
             /\ stack'[Len(stack')].Snapshot = Entries
             /\ Entries' = Entries]_vars

\* The handlers of a pass over two entries have removed one of them and added
\* a third entry; one of them has called Broadcast, and that pass has the
\* entries as they are now, while the first pass keeps its own.
C8_Witness ==
    /\ Len(stack) = 2
    /\ Handles(stack[1].Snapshot) = <<1, 2>>
    /\ Handles(stack[2].Snapshot) = <<2, 3>>
    /\ InvokedHandles(stack[1]) = <<1, 2>>
    /\ InvokedHandles(stack[2]) = <<2, 3>>

\* C9: IsBound() of the multicast delegate is true exactly when there is an
\* entry, safe or not: false right after Clear(), and still true after the
\* object of the only entries left has been released.
C9_IsBoundIffNonEmpty ==
    /\ MulticastIsBound <=> Len(Entries) > 0
    /\ lastOp.op = "Clear" => ~MulticastIsBound
    /\ (lastOp.op = "Release" /\ Len(Entries) > 0) => MulticastIsBound

\* The only entries are a weak one whose object has just been released and
\* a static one with a null function: none is safe, IsBound() is true.
C9_Witness ==
    /\ lastOp.op = "Release"
    /\ Len(Entries) = 2
    /\ \A k \in 1..2 : ~IsBound(Entries[k].Delegate)
    /\ MulticastIsBound

\* C10: every Add*, whatever its arguments, appends one entry and changes no
\* other; the entry's Handle is valid, is the Handle of its binding, is the
\* handle returned, and is the Handle of no other entry, so that Remove with
\* it takes away that entry and nothing else.
C10_AddAppendsOneWithItsHandle ==
    [][(\/ \E Fn \in Callables : AddStatic(Fn)
        \/ \E a \in RawArgs : AddRaw(a[1], a[2])
        \/ \E a \in WeakArgs : AddWeak(a[1], a[2])
        \/ \E InFunc \in LambdaArgs : AddLambda(InFunc))
       => /\ Len(Entries') = Len(Entries) + 1
          /\ SubSeq(Entries', 1, Len(Entries)) = Entries
          /\ LET E == Entries'[Len(Entries')] IN
             /\ IsValid(E.Handle)
             /\ E.Handle = GetHandle(E.Delegate)
             /\ E.Handle \notin HandleSet(Entries)
             /\ stack = <<>> => lastOp'.h = E.Handle
             /\ RemoveEntry(Entries', E.Handle) = Entries]_vars

\* main has called AddRaw with a null object as its third Add*: the entry is
\* the last one, its Handle 3 was returned, and it is not safe to execute.
C10_Witness ==
    /\ lastOp.op = "AddRaw" /\ lastOp.h = 3 /\ lastOp.o = NULL
    /\ Len(Entries) = 3
    /\ Entries[3].Handle = 3
    /\ GetHandle(Entries[3].Delegate) = 3
    /\ ~IsBound(Entries[3].Delegate)

\* C11: in every reachable state of the multicast delegate, whatever Add*,
\* Remove, RemoveAll, Clear and Broadcast calls main and the handlers have
\* made, the Handles of the live entries are all valid (not 0) and no two
\* entries have the same Handle.
C11_LiveHandlesDistinctValid ==
    \A a, b \in 1..Len(Entries) :
        /\ IsValid(Entries[a].Handle)
        /\ a # b => Entries[a].Handle # Entries[b].Handle

\* The handler of the only entry of a pass has added two entries: three live
\* entries with three Handles, while the pass still has its snapshot of one.
C11_Witness ==
    /\ Len(stack) = 1 /\ Top.inHandler
    /\ Handles(Top.Snapshot) = <<1>>
    /\ Handles(Entries) = <<1, 2, 3>>

\* C12 as claimed: GetHandle() of a unicast delegate is the Handle of its
\* binding when IsBound() holds (a binding is present and safe), and is the
\* invalid handle 0 whenever IsBound() does not hold: with no binding, after
\* Unbind(), and with a binding that is not safe (weak target destroyed).
C12_GetHandleValidIffBound ==
    GetHandle(Unicast) =
        IF IsBound(Unicast) THEN Unicast.Instance.Handle ELSE InvalidHandle

\* C13: ExecuteIfBound(args) on a delegate that is not bound (no binding, or
\* a binding that is not safe) makes no call of the target, fails no assert
\* and returns the default result (nothing for void); on a bound delegate it
\* calls the target once, with args.  Execute(args) on a delegate that is not
\* bound fails its assert: no call, no result.
C13_ExecuteIfBoundNeverAsserts ==
    [][\A args \in ArgValues(Signature) :
          LET I    == Unicast.Instance
              safe == I # NoInstance /\ IsSafeToExecute(I)
          IN  /\ ExecuteIfBound(args) =>
                    IF safe
                    THEN /\ uniOp'.outcome = "returned"
                         /\ uniOp'.calls = <<[target |-> <<I.Kind, I.Obj, I.Fn>>, args |-> args]>>
                    ELSE uniOp' = UniOp("ExecuteIfBound", "returned", <<>>,
                                        DefaultResult(Signature))
              /\ (Execute(args) /\ ~safe) =>
                    uniOp' = UniOp("Execute", "abort", <<>>, <<>>)]_vars

\* ExecuteIfBound has run on a delegate whose weak target is gone: it has
\* returned the default int without a call.
C13_Witness ==
    /\ uniOp = UniOp("ExecuteIfBound", "returned", <<>>, <<0>>)
    /\ Unicast.Instance.Kind = "weak"
    /\ Unicast.Instance.Obj \notin strong

\* C14: the compaction of Broadcast works on the live entries, not on the
\* snapshot.  Between the return of the last handler of a pass and its
\* compaction the live entries do not change, and when the Broadcast returns
\* they are those entries without the ones that are not bound, in the same
\* order: no unbound entry is left, no bound entry is removed, what the
\* handlers removed stays removed and what they added stays if it is bound.
C14_CompactionFiltersLive ==
    [][/\ BroadcastEnd =>
            /\ Survivors(Entries, Entries',
                         {k \in 1..Len(Entries) : ~IsBound(Entries[k].Delegate)})
            /\ (\A k \in 1..Len(Entries) : IsBound(Entries[k].Delegate))'
       /\ HandlerReturn => Entries' = Entries
       /\ (stack # <<>> /\ ~Top.inHandler /\ ~LoopDone(Top)) => Entries' = Entries]_vars

\* The loop of a pass over the entries 1 and 2 is over.  Its handlers have
\* removed entry 1, released the object of the weak entry 2 and added
\* entry 3: the live entries the compaction works on are 2 (not bound) and 3.
C14_Witness ==
    /\ Len(stack) = 1 /\ LoopDone(Top)
    /\ Handles(Top.Snapshot) = <<1, 2>>
    /\ Handles(Entries) = <<2, 3>>
    /\ ~IsBound(Entries[1].Delegate)
    /\ IsBound(Entries[2].Delegate)

\* C15: safety is checked when the turn of an entry comes.  A weak entry
\* whose object is gone at its turn, also when it was alive when the pass
\* began and a handler of the pass has destroyed it, is not invoked and the
\* pass goes on with the next entry; when the Broadcast returns every entry
\* of its snapshot that is safe has been invoked, and the weak entries it has
\* skipped are no longer among the live entries.
C15_SafetyCheckedAtTurn ==
    [][/\ Dispatch =>
            LET E == Top.Snapshot[Top.i] IN
            (E.Delegate.Instance.Kind = "weak" /\ Expired(E.Delegate.Instance.Obj)) =>
                /\ Len(stack') = Len(stack)
                /\ stack'[Len(stack')].invoked = Top.invoked
                /\ stack'[Len(stack')].i = Top.i + 1
                /\ ~stack'[Len(stack')].inHandler
       /\ BroadcastEnd =>
            /\ \A p \in 1..Len(Top.Snapshot) :
                  LET E == Top.Snapshot[p] IN
                  /\ IsBound(E.Delegate) => E.Handle \in InvokedHandleSet(Top)
                  /\ (/\ E.Delegate.Instance.Kind = "weak"
                      /\ E.Handle \notin InvokedHandleSet(Top))
                        => E.Handle \notin HandleSet(Entries')]_vars

\* The loop of a pass over a static, a weak and a static entry is over.  The
\* object of the weak entry was alive when the pass began and is gone: the
\* first handler has released it.  The weak entry was not invoked, the entry
\* after it was.
C15_Witness ==
    /\ Len(stack) = 1 /\ LoopDone(Top)
    /\ Len(Top.Snapshot) = 3
    /\ Top.Snapshot[2].Delegate.Instance.Kind = "weak"
    /\ Top.dead0 = {}
    /\ InvokedHandles(Top) = <<1, 3>>
    /\ Entries = Top.Snapshot

\* C16 as claimed: the live entries are never compacted while the loop of a
\* Broadcast on the delegate is in progress, also when a handler has called
\* Broadcast during the pass; and the snapshot of a pass is never modified.
C16_NeverCompactedDuringALoop ==
    [][/\ (BroadcastEnd /\ Below # <<>>) => Entries' = Entries
       /\ (stack # <<>> /\ ~Top.inHandler /\ ~LoopDone(Top)) => Entries' = Entries
       /\ \A k \in 1..Len(stack) :
             k <= Len(stack') => stack'[k].Snapshot = stack[k].Snapshot]_vars

\* C16 amended: a pass does no cleanup while its own loop is in progress: an
\* entry it skips stays among the live entries, and the live entries change
\* during the loop only by what the handlers call.  The compaction of a
\* Broadcast runs once its own loop is over, and then removes the unbound
\* entries also when it was called by a handler of a pass whose loop is
\* still in progress.  The snapshot of a pass is never modified.
C16_CleanupAfterOwnLoop ==
    [][/\ (stack # <<>> /\ ~Top.inHandler /\ ~LoopDone(Top)) => Entries' = Entries
       /\ (HandlerReturn \/ HandlerThrow) => Entries' = Entries
       /\ (stack # <<>> /\ ~Top.inHandler /\ Entries' # Entries) =>
             /\ LoopDone(Top)
             /\ stack' = Below
       /\ (BroadcastEnd /\ Below # <<>>) =>
             (\A k \in 1..Len(Entries) : IsBound(Entries[k].Delegate))'
       /\ \A k \in 1..Len(stack) :
             k <= Len(stack') => stack'[k].Snapshot = stack[k].Snapshot]_vars

\* A handler of a pass over three entries has called Broadcast.  The inner
\* pass has skipped the weak entry 2, whose object is gone, and is at entry
\* 3: entry 2 is still among the live entries and in both snapshots.
C16_Witness ==
    /\ Len(stack) = 2
    /\ stack[1].inHandler /\ stack[2].inHandler
    /\ stack[2].i = 3
    /\ Handles(stack[1].Snapshot) = <<1, 2, 3>>
    /\ Handles(stack[2].Snapshot) = <<1, 2, 3>>
    /\ Handles(Entries) = <<1, 2, 3>>
    /\ Entries[2].Delegate.Instance.Kind = "weak"
    /\ 2 \notin InvokedHandleSet(stack[2])

\* C17: a handler that throws ends the pass.  Broadcast does not catch: the
\* call is left there and then, the entry that threw is the last one it has
\* invoked, none was invoked twice and none after it, and the compaction
\* does not run: the live entries are what the handlers have left, unbound
\* entries included.
C17_ThrowEndsPassUncompacted ==
    [][HandlerThrow =>
          /\ Entries' = Entries
          /\ stack' = Below
          /\ Top.invoked[Len(Top.invoked)].h = Top.Snapshot[Top.i].Handle
          /\ \A a, b \in 1..Len(Top.invoked) :
                a # b => Top.invoked[a].h # Top.invoked[b].h
          /\ \A p \in (Top.i + 1)..Len(Top.Snapshot) :
                Top.Snapshot[p].Handle \notin InvokedHandleSet(Top)
          /\ Below = <<>> => (lastOp'.op = "BroadcastThrew" /\ lastOp'.n = 0)]_vars

\* A Broadcast called by main on three entries was left by an exception;
\* the weak entry, whose object is gone, is still registered.
C17_Witness ==
    /\ lastOp.op = "BroadcastThrew"
    /\ Len(Entries) = 3
    /\ \E k \in 1..3 :
          /\ Entries[k].Delegate.Instance.Kind = "weak"
          /\ ~IsBound(Entries[k].Delegate)

\* C18: when no handler calls Broadcast and every handler returns (or
\* throws), a pass comes to its end; and it never invokes more handlers than
\* the delegate had entries when the pass began, whatever the handlers add.
C18_PassEndsWithinSnapshot ==
    /\ [](\A k \in 1..Len(stack) : Len(stack[k].invoked) <= Len(stack[k].Snapshot))
    /\ (stack # <<>>) ~> (stack = <<>>)

\* The loop of a pass that began with one entry is over: its handler has
\* added two entries and was the only one invoked.
C18_Witness ==
    /\ Len(stack) = 1 /\ LoopDone(Top)
    /\ Handles(Top.Snapshot) = <<1>>
    /\ Handles(Entries) = <<1, 2, 3>>
    /\ InvokedHandles(Top) = <<1>>

\* C19: the live entries are always in the order in which they were added,
\* which is the order of their Handles: Remove, RemoveAll and the compaction
\* take entries away and leave the others in place.  A pass therefore
\* invokes in registration order.
C19_LiveOrderIsRegistrationOrder ==
    /\ \A a, b \in 1..Len(Entries) :
          a < b => Entries[a].Handle < Entries[b].Handle
    /\ \A k \in 1..Len(stack) :
          \A a, b \in 1..Len(stack[k].invoked) :
              a < b => stack[k].invoked[a].h < stack[k].invoked[b].h

\* The compaction of a Broadcast called by main has removed the second of
\* three entries: the first and the third are left, in that order.
C19_Witness ==
    /\ lastOp.op = "Broadcast" /\ lastOp.n = 1
    /\ Handles(Entries) = <<1, 3>>

====
